---- MODULE Spec2Model ----
(***************************************************************************)
(* Model of SignLanguageChatbot (src/chatbot20.py): the message log, the   *)
(* delayed bot replies registered with root.after, the gesture classifier  *)
(* and the keyword mapping of typed text.                                  *)
(*                                                                         *)
(* Encoding of texts.  A text is a sequence of atoms.  Text typed by the   *)
(* user is a sequence of one-character strings, so that strip(), lower()   *)
(* and the substring tests are computed on it.  A literal of the program   *)
(* (a canned reply, a sign_dict meaning) is the one-atom sequence holding  *)
(* the literal; the program only ever compares such texts for equality.    *)
(*                                                                         *)
(* Coordinates of hand landmarks are hundredths (0.05 is 5).               *)
(* Time is in milliseconds.                                                *)
(***************************************************************************)
EXTENDS Integers, Sequences, FiniteSets, TLC

VARIABLES
    messages,   \* self.messages: the message log
    pending,    \* callbacks registered with root.after, ordered by due time
    timer_seq,  \* number of root.after registrations made so far
    now,        \* wall clock, ms since construction
    is_video_mode,          \* self.is_video_mode
    is_sign_language_mode,  \* self.is_sign_language_mode
    camera_running,         \* self.camera_running
    threads,    \* the capture threads started so far: where each stands
    last_op,    \* history: the operation that made the last step and its input
    origin,     \* history: for each log position, who appended it
    hold,       \* history: the current run of equally classified gestures
    is_audio_enabled,       \* self.is_audio_enabled
    TTS_AVAILABLE,          \* whether import pyttsx3 succeeded
    spoken      \* the texts handed to _speak_text while pyttsx3 is there

log_vars == <<messages, pending, timer_seq, origin, hold>>

mode_vars == <<is_video_mode, is_sign_language_mode, camera_running>>

audio_vars == <<is_audio_enabled, TTS_AVAILABLE, spoken>>

vars == <<messages, pending, timer_seq, now, is_video_mode,
          is_sign_language_mode, camera_running, threads, last_op, origin, hold,
          is_audio_enabled, TTS_AVAILABLE, spoken>>

----------------------------------------------------------------------------
(* Bounds of the model *)

MaxLog == 6
MaxTime == 2000
TickMs == 500
MaxHold == 3
MaxThreads == 2
Reach == 6
MaxWords == 2
MaxSpoken == 2

----------------------------------------------------------------------------
(* Program constants *)

TextDelay == 500
SignDelay == 1000

NoSign == "None"

SignIds ==
    {"THUMBS_UP", "THUMBS_DOWN", "OPEN_PALM", "CLOSED_FIST",
     "PEACE_SIGN", "POINTING_UP", "PINCH"}

sign_dict ==
    [s \in SignIds |->
        CASE s = "THUMBS_UP"   -> <<"Yes/Good">>
          [] s = "THUMBS_DOWN" -> <<"No/Bad">>
          [] s = "OPEN_PALM"   -> <<"Hello/Stop">>
          [] s = "CLOSED_FIST" -> <<"Wait">>
          [] s = "PEACE_SIGN"  -> <<"Peace/Two">>
          [] s = "POINTING_UP" -> <<"Attention/Question">>
          [] s = "PINCH"       -> <<"Small/Little">>]

SignDictGet(s) ==
    IF s \in DOMAIN sign_dict THEN sign_dict[s] ELSE <<"Unknown sign">>

InitialGreeting ==
    <<"Hello! I can detect sign language and respond with signs. How can I help you today?">>

----------------------------------------------------------------------------
(* Sequences *)

Last(s) == s[Len(s)]

IsPrefix(s, t) == Len(s) <= Len(t) /\ SubSeq(t, 1, Len(s)) = s

Min(a, b) == IF a < b THEN a ELSE b

Abs(a) == IF a < 0 THEN 0 - a ELSE a

----------------------------------------------------------------------------
(* str.strip(), str.lower() and the `in` substring test *)

Whitespace == {" ", "\t", "\n", "\r", "\f"}

UpperCase ==
    <<"A","B","C","D","E","F","G","H","I","J","K","L","M",
      "N","O","P","Q","R","S","T","U","V","W","X","Y","Z">>

LowerCase ==
    <<"a","b","c","d","e","f","g","h","i","j","k","l","m",
      "n","o","p","q","r","s","t","u","v","w","x","y","z">>

LowerChar(c) ==
    IF \E i \in 1..26 : UpperCase[i] = c
    THEN LowerCase[CHOOSE i \in 1..26 : UpperCase[i] = c]
    ELSE c

Lower(s) == [i \in 1..Len(s) |-> LowerChar(s[i])]

RECURSIVE LStrip(_)
LStrip(s) ==
    IF s = <<>> THEN s
    ELSE IF Head(s) \in Whitespace THEN LStrip(Tail(s)) ELSE s

RECURSIVE RStrip(_)
RStrip(s) ==
    IF s = <<>> THEN s
    ELSE IF Last(s) \in Whitespace THEN RStrip(SubSeq(s, 1, Len(s) - 1)) ELSE s

(* a program that would not strip its input *)
StripIdentity(s) == s

(* str.strip() *)
Strip(s) == RStrip(LStrip(s))

Contains(hay, needle) ==
    \E i \in 0..(Len(hay) - Len(needle)) :
        SubSeq(hay, i + 1, i + Len(needle)) = needle

AnyIn(words, text) == \E w \in words : Contains(text, w)

----------------------------------------------------------------------------
(* Keyword tables of _text_to_sign and _send_bot_response *)

GreetWords ==
    { <<"h","e","l","l","o">>, <<"h","i">>, <<"h","e","y">>,
      <<"g","r","e","e","t">> }

AssentWords ==
    { <<"y","e","s">>, <<"g","o","o","d">>, <<"o","k">>, <<"o","k","a","y">>,
      <<"f","i","n","e">>, <<"a","g","r","e","e">> }

DissentWords ==
    { <<"n","o">>, <<"b","a","d">>, <<"w","r","o","n","g">>,
      <<"d","i","s","a","g","r","e","e">>, <<"d","o","n","'","t">> }

WaitWords ==
    { <<"w","a","i","t">>, <<"h","o","l","d">>, <<"s","t","o","p">>,
      <<"p","a","u","s","e">> }

PeaceWords ==
    { <<"p","e","a","c","e">>, <<"t","w","o">>, <<"2">>, <<"b","o","t","h">> }

QuestionWords ==
    { <<"q","u","e","s","t","i","o","n">>, <<"w","h","a","t">>,
      <<"h","o","w">>, <<"w","h","e","n">>, <<"w","h","e","r","e">>,
      <<"w","h","y">>, <<"?">> }

SmallWords ==
    { <<"s","m","a","l","l">>, <<"l","i","t","t","l","e">>,
      <<"t","i","n","y">>, <<"b","i","t">> }

ReplyGreetWords == { <<"h","e","l","l","o">>, <<"h","i">> }

ReplyThankWords == { <<"t","h","a","n","k">> }

ReplyHelpWords == { <<"h","e","l","p">> }

ReplyAssentWords ==
    { <<"y","e","s">>, <<"y","e","a","h">>, <<"o","k">>, <<"s","u","r","e">> }

ReplyDissentWords ==
    { <<"n","o">>, <<"n","o","p","e">>, <<"d","o","n","'","t">>,
      <<"n","o","t">> }

(* a lookup that would not lower-case the text *)
TextToSignCaseSensitive(text) ==
    IF AnyIn(GreetWords, text) THEN "OPEN_PALM"
    ELSE IF AnyIn(AssentWords, text) THEN "THUMBS_UP"
    ELSE IF AnyIn(DissentWords, text) THEN "THUMBS_DOWN"
    ELSE IF AnyIn(WaitWords, text) THEN "CLOSED_FIST"
    ELSE IF AnyIn(PeaceWords, text) THEN "PEACE_SIGN"
    ELSE IF AnyIn(QuestionWords, text) THEN "POINTING_UP"
    ELSE IF AnyIn(SmallWords, text) THEN "PINCH"
    ELSE "OPEN_PALM"

(* a lookup that would test the assent words before the greeting words *)
TextToSignAssentFirst(text) ==
    LET t == Lower(text) IN
    IF AnyIn(AssentWords, t) THEN "THUMBS_UP"
    ELSE IF AnyIn(GreetWords, t) THEN "OPEN_PALM"
    ELSE IF AnyIn(DissentWords, t) THEN "THUMBS_DOWN"
    ELSE IF AnyIn(WaitWords, t) THEN "CLOSED_FIST"
    ELSE IF AnyIn(PeaceWords, t) THEN "PEACE_SIGN"
    ELSE IF AnyIn(QuestionWords, t) THEN "POINTING_UP"
    ELSE IF AnyIn(SmallWords, t) THEN "PINCH"
    ELSE "OPEN_PALM"

(* _text_to_sign *)
TextToSign(text) ==
    LET t == Lower(text) IN
    IF AnyIn(GreetWords, t) THEN "OPEN_PALM"
    ELSE IF AnyIn(AssentWords, t) THEN "THUMBS_UP"
    ELSE IF AnyIn(DissentWords, t) THEN "THUMBS_DOWN"
    ELSE IF AnyIn(WaitWords, t) THEN "CLOSED_FIST"
    ELSE IF AnyIn(PeaceWords, t) THEN "PEACE_SIGN"
    ELSE IF AnyIn(QuestionWords, t) THEN "POINTING_UP"
    ELSE IF AnyIn(SmallWords, t) THEN "PINCH"
    ELSE "OPEN_PALM"

(* a chain that would test "help" before "thank" *)
ReplyBranchHelpFirst(t) ==
    IF AnyIn(ReplyGreetWords, t) THEN "greet"
    ELSE IF AnyIn(ReplyHelpWords, t) THEN "help"
    ELSE IF AnyIn(ReplyThankWords, t) THEN "thank"
    ELSE IF AnyIn(ReplyAssentWords, t) THEN "assent"
    ELSE IF AnyIn(ReplyDissentWords, t) THEN "dissent"
    ELSE "else"

(* _send_bot_response: the branch of the if/elif chain a lower-cased text  *)
(* takes                                                                   *)
ReplyBranch(t) ==
    IF AnyIn(ReplyGreetWords, t) THEN "greet"
    ELSE IF AnyIn(ReplyThankWords, t) THEN "thank"
    ELSE IF AnyIn(ReplyHelpWords, t) THEN "help"
    ELSE IF AnyIn(ReplyAssentWords, t) THEN "assent"
    ELSE IF AnyIn(ReplyDissentWords, t) THEN "dissent"
    ELSE "else"

(* response_text of each branch *)
ReplyText(branch) ==
    CASE branch = "greet"   -> <<"Hello! How can I help you today?">>
      [] branch = "thank"   -> <<"You're welcome! Is there anything else you need?">>
      [] branch = "help"    -> <<"I'm here to help. You can use sign language or type your questions.">>
      [] branch = "assent"  -> <<"Great! What would you like to do next?">>
      [] branch = "dissent" -> <<"I understand. Let me know if you need something else.">>
      [] OTHER              -> <<"I understand your message. How else can I assist you?">>

(* branches that would all leave sign_key alone *)
ReplySignKept(branch, sign_key) == sign_key

(* sign_key after each branch: four branches assign it, two leave it *)
ReplySign(branch, sign_key) ==
    CASE branch = "thank"   -> "THUMBS_UP"
      [] branch = "help"    -> "OPEN_PALM"
      [] branch = "assent"  -> "THUMBS_UP"
      [] branch = "dissent" -> "THUMBS_DOWN"
      [] OTHER              -> sign_key

(* _send_bot_response, the branch taken: response_text and sign_key *)
BotResponse(user_message, sign_key) ==
    LET branch == ReplyBranch(Lower(user_message))
    IN  [text |-> ReplyText(branch), sign_key |-> ReplySign(branch, sign_key)]

(* a lookup that would answer every sign with the generic sentence *)
SignResponseGeneric(sign_key) ==
    <<"I see you're using sign language. How can I help?">>

(* a lookup that would answer a value it does not know as an open palm *)
SignResponseAsPalm(sign_key) ==
    CASE sign_key = "THUMBS_UP"   -> <<"Great! I'm glad you agree.">>
      [] sign_key = "THUMBS_DOWN" -> <<"I understand you disagree or need something different.">>
      [] sign_key = "CLOSED_FIST" -> <<"I'll wait for your next instruction.">>
      [] sign_key = "PEACE_SIGN"  -> <<"Peace! Do you need help with two options?">>
      [] sign_key = "POINTING_UP" -> <<"Do you have a question? I'm listening.">>
      [] sign_key = "PINCH"       -> <<"I understand you're referring to something small or precise.">>
      [] OTHER                    -> <<"Hello! How can I help you?">>

(* _respond_to_sign, the canned sentence *)
SignResponse(sign_key) ==
    CASE sign_key = "THUMBS_UP"   -> <<"Great! I'm glad you agree.">>
      [] sign_key = "THUMBS_DOWN" -> <<"I understand you disagree or need something different.">>
      [] sign_key = "OPEN_PALM"   -> <<"Hello! How can I help you?">>
      [] sign_key = "CLOSED_FIST" -> <<"I'll wait for your next instruction.">>
      [] sign_key = "PEACE_SIGN"  -> <<"Peace! Do you need help with two options?">>
      [] sign_key = "POINTING_UP" -> <<"Do you have a question? I'm listening.">>
      [] sign_key = "PINCH"       -> <<"I understand you're referring to something small or precise.">>
      [] OTHER                    -> <<"I see you're using sign language. How can I help?">>

----------------------------------------------------------------------------
(* Hand landmarks and _recognize_hand_gesture *)

Pt(x, y) == [x |-> x, y |-> y]

MkHand(tt, ti, it, ip, mt, mp, rt, rp, pt, pp) ==
    [thumb_tip |-> tt, thumb_ip |-> ti, index_tip |-> it, index_pip |-> ip,
     middle_tip |-> mt, middle_pip |-> mp, ring_tip |-> rt, ring_pip |-> rp,
     pinky_tip |-> pt, pinky_pip |-> pp]

(* a thumbs-up rule that would look at the thumb only *)
IsThumbsUpThumbOnly(h) == h.thumb_tip.y < h.thumb_ip.y

(* the bodies of the seven rules, in the order of the if/elif chain *)
IsThumbsUp(h) ==
    /\ h.thumb_tip.y < h.thumb_ip.y
    /\ h.index_tip.y > h.index_pip.y
    /\ h.middle_tip.y > h.middle_pip.y

(* a thumbs-down rule that would want the tip well below the joint *)
IsThumbsDownWellBelow(h) ==
    /\ h.thumb_tip.y > h.thumb_ip.y + 2
    /\ h.index_tip.y > h.index_pip.y
    /\ h.middle_tip.y > h.middle_pip.y

IsThumbsDown(h) ==
    /\ h.thumb_tip.y > h.thumb_ip.y
    /\ h.index_tip.y > h.index_pip.y
    /\ h.middle_tip.y > h.middle_pip.y

IsOpenPalm(h) ==
    /\ h.index_tip.y < h.index_pip.y
    /\ h.middle_tip.y < h.middle_pip.y
    /\ h.ring_tip.y < h.ring_pip.y
    /\ h.pinky_tip.y < h.pinky_pip.y

IsClosedFist(h) ==
    /\ h.index_tip.y > h.index_pip.y
    /\ h.middle_tip.y > h.middle_pip.y
    /\ h.ring_tip.y > h.ring_pip.y
    /\ h.pinky_tip.y > h.pinky_pip.y

IsPeaceSign(h) ==
    /\ h.index_tip.y < h.index_pip.y
    /\ h.middle_tip.y < h.middle_pip.y
    /\ h.ring_tip.y > h.ring_pip.y
    /\ h.pinky_tip.y > h.pinky_pip.y

IsPointingUp(h) ==
    /\ h.index_tip.y < h.index_pip.y
    /\ h.middle_tip.y > h.middle_pip.y
    /\ h.ring_tip.y > h.ring_pip.y
    /\ h.pinky_tip.y > h.pinky_pip.y

(* a closeness test that would accept a distance of exactly 0.05 *)
IsPinchInclusive(h) ==
    /\ Abs(h.thumb_tip.x - h.index_tip.x) <= 5
    /\ Abs(h.thumb_tip.y - h.index_tip.y) <= 5

IsPinch(h) ==
    /\ Abs(h.thumb_tip.x - h.index_tip.x) < 5
    /\ Abs(h.thumb_tip.y - h.index_tip.y) < 5

(* a chain that would test the fist before the thumbs *)
RecognizeFistFirst(h) ==
    IF IsClosedFist(h) THEN "CLOSED_FIST"
    ELSE IF IsThumbsUp(h) THEN "THUMBS_UP"
    ELSE IF IsThumbsDown(h) THEN "THUMBS_DOWN"
    ELSE IF IsOpenPalm(h) THEN "OPEN_PALM"
    ELSE IF IsPeaceSign(h) THEN "PEACE_SIGN"
    ELSE IF IsPointingUp(h) THEN "POINTING_UP"
    ELSE IF IsPinch(h) THEN "PINCH"
    ELSE NoSign

(* _recognize_hand_gesture *)
RecognizeHandGesture(h) ==
    IF IsThumbsUp(h) THEN "THUMBS_UP"
    ELSE IF IsThumbsDown(h) THEN "THUMBS_DOWN"
    ELSE IF IsOpenPalm(h) THEN "OPEN_PALM"
    ELSE IF IsClosedFist(h) THEN "CLOSED_FIST"
    ELSE IF IsPeaceSign(h) THEN "PEACE_SIGN"
    ELSE IF IsPointingUp(h) THEN "POINTING_UP"
    ELSE IF IsPinch(h) THEN "PINCH"
    ELSE NoSign

(* The hands shown to the session: a fist, an open palm, a thumbs-up and a *)
(* pose no rule matches (index curled, middle extended, thumb far away).   *)
FistHand ==
    MkHand(Pt(30, 50), Pt(32, 50), Pt(40, 60), Pt(40, 50), Pt(50, 60),
           Pt(50, 50), Pt(60, 60), Pt(60, 50), Pt(70, 60), Pt(70, 50))

PalmHand ==
    MkHand(Pt(20, 40), Pt(25, 45), Pt(40, 20), Pt(40, 50), Pt(50, 20),
           Pt(50, 50), Pt(60, 20), Pt(60, 50), Pt(70, 20), Pt(70, 50))

ThumbsUpHand ==
    MkHand(Pt(30, 20), Pt(30, 35), Pt(40, 60), Pt(40, 50), Pt(50, 60),
           Pt(50, 50), Pt(60, 60), Pt(60, 50), Pt(70, 60), Pt(70, 50))

UnknownHand ==
    MkHand(Pt(10, 10), Pt(12, 20), Pt(40, 60), Pt(40, 50), Pt(50, 20),
           Pt(50, 50), Pt(60, 60), Pt(60, 50), Pt(70, 60), Pt(70, 50))

SessionHands == {FistHand, PalmHand, ThumbsUpHand, UnknownHand}

(* The hands of a grid around the joints: the thumb tip ty below and tx    *)
(* right of the thumb joint, the index tip iy below the index joint (the   *)
(* two joints at one place), the other three tips above, level with or     *)
(* below their joints.                                                     *)
GridHand(ty, tx, iy, my, ry, py) ==
    MkHand(Pt(40 + tx, 50 + ty), Pt(40, 50), Pt(40, 50 + iy), Pt(40, 50),
           Pt(50, 50 + my), Pt(50, 50), Pt(60, 50 + ry), Pt(60, 50),
           Pt(70, 50 + py), Pt(70, 50))

GridHands ==
    { GridHand(ty, tx, iy, my, ry, py) :
        ty \in -Reach..Reach, tx \in -Reach..Reach, iy \in -Reach..Reach,
        my \in {-Reach, 0, Reach}, ry \in {-Reach, 0, Reach},
        py \in {-Reach, 0, Reach} }

(* The contents of the text entry when Send is pressed:                    *)
(* "", "   ", " Hi ", "Thanks" and "wait".                                 *)
TextInputs ==
    { <<>>,
      <<" ", " ", " ">>,
      <<" ", "H", "i", " ">>,
      <<"T", "h", "a", "n", "k", "s">>,
      <<"w", "a", "i", "t">> }

----------------------------------------------------------------------------
(* The message log and the timers *)

(* _get_timestamp: HH:MM, the minute of the day *)
GetTimestamp(t) == (t \div 60000) % 1440

(* a program that would number from len(self.messages) *)
NewIdOffByOne(log) == Len(log)

(* len(self.messages) + 1 *)
NewId(log) == Len(log) + 1

(* a program that would file the typed text under the bot *)
UserMessageAsBot(log, text, t) ==
    [id |-> NewId(log), text |-> text, sender |-> "bot",
     timestamp |-> GetTimestamp(t)]

(* the dicts appended by _send_message, _process_sign_language and the two *)
(* reply callbacks                                                         *)
UserMessage(log, text, t) ==
    [id |-> NewId(log), text |-> text, sender |-> "user",
     timestamp |-> GetTimestamp(t)]

(* a sign message that would show the key in place of its meaning *)
SignMessageWithKey(log, detected_sign, t) ==
    [id |-> NewId(log), text |-> <<detected_sign>>, sender |-> "sign",
     timestamp |-> GetTimestamp(t), sign_key |-> detected_sign]

SignMessage(log, detected_sign, t) ==
    [id |-> NewId(log), text |-> SignDictGet(detected_sign), sender |-> "sign",
     timestamp |-> GetTimestamp(t), sign_key |-> detected_sign]

BotMessage(log, text, sign_key, t) ==
    [id |-> NewId(log), text |-> text, sender |-> "bot",
     timestamp |-> GetTimestamp(t), sign_key |-> sign_key]

(* timers that would run in the order of their registration *)
AfterInOrder(q, e) == Append(q, e)

(* a program that would cancel the timers still pending *)
AfterCancelling(q, e) == <<e>>

(* root.after(delay, callback): Tk keeps its timers ordered by due time,   *)
(* a new one behind those already due at the same time; none is cancelled. *)
After(q, e) ==
    LET k == Cardinality({i \in 1..Len(q) : q[i].due <= e.due})
    IN  SubSeq(q, 1, k) \o <<e>> \o SubSeq(q, k + 1, Len(q))

(* a dedup test that would suppress any sign behind a sign message *)
IsNewDetectionAnySign(log, detected_sign) ==
    \/ log = <<>>
    \/ Last(log).sender # "sign"

(* the dedup test of _process_sign_language *)
IsNewDetection(log, detected_sign) ==
    \/ log = <<>>
    \/ Last(log).sender # "sign"
    \/ Last(log).text # SignDictGet(detected_sign)

(* a reply that would be put in front of the log *)
SendBotResponseInFront(log, user_message, sign_key, t) ==
    LET r == BotResponse(user_message, sign_key)
    IN  <<BotMessage(log, r.text, r.sign_key, t)>> \o log

(* the body of _send_bot_response and of _respond_to_sign: the log after it *)
SendBotResponse(log, user_message, sign_key, t) ==
    LET r == BotResponse(user_message, sign_key)
    IN  Append(log, BotMessage(log, r.text, r.sign_key, t))

(* a reply that would overwrite the last message *)
RespondToSignInPlace(log, sign_key, t) ==
    [log EXCEPT ![Len(log)] = BotMessage(log, SignResponse(sign_key), sign_key, t)]

RespondToSign(log, sign_key, t) ==
    Append(log, BotMessage(log, SignResponse(sign_key), sign_key, t))

RunCallback(log, e, t) ==
    IF e.callback = "_send_bot_response"
    THEN SendBotResponse(log, e.user_message, e.sign_key, t)
    ELSE RespondToSign(log, e.sign_key, t)

----------------------------------------------------------------------------------------------------------------------------------------
(* History variables *)

Op(name, arg) ==
    [name |-> name, arg |-> arg, len_before |-> Len(messages),
     pending_before |-> Len(pending)]

Origin(op, thread, timer) == [op |-> op, thread |-> thread, timer |-> timer]

NoHold == [sign |-> NoSign, calls |-> 0, sign_msgs |-> 0, scheduled |-> 0]

(* a gesture classified to s was processed; n is 1 when it was appended *)
HoldGesture(h, s, n) ==
    IF h.sign = s
    THEN [h EXCEPT !.calls = Min(@ + 1, MaxHold), !.sign_msgs = @ + n,
                   !.scheduled = @ + n]
    ELSE [sign |-> s, calls |-> 1, sign_msgs |-> n, scheduled |-> n]

----------------------------------------------------------------------------
(* The camera and sign-mode switches, with the libraries available.        *)
(* A mode record m holds is_video_mode, camera_running and                 *)
(* is_sign_language_mode.                                                  *)

(* starts counts the capture threads the operation has started             *)
Modes(video, running, sign) ==
    [video |-> video, running |-> running, sign |-> sign, starts |-> 0]

(* _toggle_video, the branch that turns the camera on, and _start_camera *)
StartVideo(m) ==
    [m EXCEPT !.video = TRUE, !.running = TRUE, !.starts = @ + 1]

(* _toggle_sign_language *)
ToggleSignLanguageOf(m) ==
    LET g == IF ~m.video THEN StartVideo(m) ELSE m
    IN  [g EXCEPT !.sign = ~g.sign]

(* a _toggle_video that would leave sign mode as it is *)
ToggleVideoOfKeepingSign(m) ==
    IF m.video
    THEN [m EXCEPT !.video = FALSE, !.running = FALSE]
    ELSE StartVideo(m)

(* _toggle_video *)
ToggleVideoOf(m) ==
    IF m.video
    THEN LET g == [m EXCEPT !.video = FALSE, !.running = FALSE]
         IN  IF g.sign THEN ToggleSignLanguageOf(g) ELSE g
    ELSE StartVideo(m)

CurrentModes == Modes(is_video_mode, camera_running, is_sign_language_mode)

SetModes(m) ==
    /\ is_video_mode' = m.video
    /\ camera_running' = m.running
    /\ is_sign_language_mode' = m.sign

----------------------------------------------------------------------------
(* Speech *)

(* _speak_text: the text goes to the engine unless pyttsx3 is missing *)
SpeakText(sp, text) == IF TTS_AVAILABLE THEN Append(sp, text) ELSE sp

(* a program that would speak every reply *)
HandoffAlways(sp, text) == SpeakText(sp, text)

(* if self.is_audio_enabled and TTS_AVAILABLE: self._speak_text(response) *)
Handoff(sp, text) ==
    IF is_audio_enabled /\ TTS_AVAILABLE THEN SpeakText(sp, text) ELSE sp

----------------------------------------------------------------------------
(* The session, one operation at a time *)

Constructed ==
    /\ messages = << [id |-> 1, text |-> InitialGreeting, sender |-> "bot",
                      timestamp |-> GetTimestamp(0), sign_key |-> "OPEN_PALM"] >>
    /\ pending = <<>>
    /\ timer_seq = 0
    /\ now = 0
    /\ is_video_mode = FALSE
    /\ is_sign_language_mode = FALSE
    /\ camera_running = FALSE
    /\ threads = <<>>
    /\ last_op = [name |-> "__init__", arg |-> 0, len_before |-> 0,
                  pending_before |-> 0]
    /\ origin = << Origin("__init__", "ui", 0) >>
    /\ hold = NoHold
    /\ is_audio_enabled = FALSE
    /\ spoken = <<>>

(* construction with pyttsx3 installed *)
Init == Constructed /\ TTS_AVAILABLE = TRUE

(* log positions a capture thread is about to fill: its sign message and  *)
(* the reply to it                                                         *)
Reserved ==
    LET n(pcs) == Cardinality({i \in 1..Len(threads) : threads[i].pc \in pcs})
    IN  2 * n({"build", "append"}) + n({"schedule"})

(* the model explores an input only while its message and its reply fit *)
Room(delay) ==
    /\ Len(messages) + Len(pending) + Reserved + 2 <= MaxLog
    /\ now + delay <= MaxTime

(* _send_message with the entry holding input: submit_text *)
SendMessage(input) ==
    /\ LET message_text == Strip(input) IN
       IF message_text = <<>>
       THEN UNCHANGED log_vars
       ELSE /\ Room(TextDelay)
            /\ messages' = Append(messages, UserMessage(messages, message_text, now))
            /\ pending' = After(pending,
                   [id |-> timer_seq + 1, due |-> now + TextDelay,
                    callback |-> "_send_bot_response",
                    user_message |-> message_text,
                    sign_key |-> TextToSign(message_text)])
            /\ timer_seq' = timer_seq + 1
            /\ origin' = Append(origin, Origin("submit_text", "ui", 0))
            /\ hold' = NoHold
    /\ last_op' = Op("submit_text", input)
    /\ UNCHANGED <<now, mode_vars, threads>>
    /\ UNCHANGED audio_vars

(* a test that would take None for a detection *)
DetectedAlways(detected_sign) == TRUE

(* if detected_sign: *)
Detected(detected_sign) == detected_sign # NoSign

(* the loop body of _process_sign_language for one detected hand, reached  *)
(* from _camera_thread while the camera runs in sign mode: on_gesture      *)
ProcessSignLanguage(hand) ==
    /\ camera_running
    /\ is_sign_language_mode
    /\ LET detected_sign == RecognizeHandGesture(hand) IN
       IF ~Detected(detected_sign)
       THEN UNCHANGED log_vars
       ELSE IF IsNewDetection(messages, detected_sign)
       THEN /\ Room(SignDelay)
            /\ messages' = Append(messages, SignMessage(messages, detected_sign, now))
            /\ pending' = After(pending,
                   [id |-> timer_seq + 1, due |-> now + SignDelay,
                    callback |-> "_respond_to_sign",
                    sign_key |-> detected_sign])
            /\ timer_seq' = timer_seq + 1
            /\ origin' = Append(origin, Origin("on_gesture", "capture", 0))
            /\ hold' = HoldGesture(hold, detected_sign, 1)
       ELSE /\ UNCHANGED <<messages, pending, timer_seq, origin>>
            /\ hold' = HoldGesture(hold, detected_sign, 0)
    /\ last_op' = Op("on_gesture", hand)
    /\ UNCHANGED <<now, mode_vars, threads>>
    /\ UNCHANGED audio_vars

(* a delivery that would drop the other pending timers *)
DeliverDroppingOthers ==
    /\ pending # <<>>
    /\ Head(pending).due <= now
    /\ messages' = RunCallback(messages, Head(pending), now)
    /\ pending' = <<>>
    /\ origin' = Append(origin,
           Origin("deliver_scheduled_reply", "ui", Head(pending).id))
    /\ last_op' = Op("deliver_scheduled_reply", Head(pending).id)
    /\ UNCHANGED <<timer_seq, now, hold, mode_vars, threads>>
    /\ spoken' = Handoff(spoken, Last(RunCallback(messages, Head(pending), now)).text)
    /\ UNCHANGED <<is_audio_enabled, TTS_AVAILABLE>>

(* the Tk event loop runs the first timer that is due: deliver_scheduled_reply *)
DeliverScheduledReply ==
    /\ pending # <<>>
    /\ Head(pending).due <= now
    /\ messages' = RunCallback(messages, Head(pending), now)
    /\ pending' = Tail(pending)
    /\ origin' = Append(origin,
           Origin("deliver_scheduled_reply", "ui", Head(pending).id))
    /\ last_op' = Op("deliver_scheduled_reply", Head(pending).id)
    /\ UNCHANGED <<timer_seq, now, hold, mode_vars, threads>>
    /\ spoken' = Handoff(spoken, Last(RunCallback(messages, Head(pending), now)).text)
    /\ UNCHANGED <<is_audio_enabled, TTS_AVAILABLE>>

(* the two switches; the capture thread is part of on_gesture here *)
ToggleVideo ==
    /\ SetModes(ToggleVideoOf(CurrentModes))
    /\ last_op' = Op("_toggle_video", CurrentModes)
    /\ UNCHANGED <<now, log_vars, threads>>
    /\ UNCHANGED audio_vars

ToggleSignLanguage ==
    /\ SetModes(ToggleSignLanguageOf(CurrentModes))
    /\ last_op' = Op("_toggle_sign_language", CurrentModes)
    /\ UNCHANGED <<now, log_vars, threads>>
    /\ UNCHANGED audio_vars

Tick ==
    /\ now + TickMs <= MaxTime
    /\ now' = now + TickMs
    /\ last_op' = Op("tick", 0)
    /\ UNCHANGED <<log_vars, mode_vars, threads>>
    /\ UNCHANGED audio_vars

SubmitText == \E input \in TextInputs : SendMessage(input)

OnGesture == \E hand \in SessionHands : ProcessSignLanguage(hand)

Next ==
    \/ SubmitText
    \/ OnGesture
    \/ DeliverScheduledReply
    \/ ToggleVideo
    \/ ToggleSignLanguage
    \/ Tick

Spec == Init /\ [][Next]_vars

(* The same operations over fewer inputs ("" and " Hi ", a fist and an     *)
(* open palm), under the scheduling of the Tk main loop: the clock         *)
(* advances and a timer that is due is run.                                *)
FairTextInputs == { <<>>, <<" ", "H", "i", " ">> }

FairHands == {FistHand, PalmHand}

FairNext ==
    \/ \E input \in FairTextInputs : SendMessage(input)
    \/ \E hand \in FairHands : ProcessSignLanguage(hand)
    \/ DeliverScheduledReply
    \/ ToggleSignLanguage
    \/ Tick

FairSpec ==
    Init /\ [][FairNext]_vars /\ WF_vars(Tick) /\ WF_vars(DeliverScheduledReply)

(* The texts typed into the mapper: up to MaxWords words of a vocabulary   *)
(* that touches every keyword group of both passes (Hello, Hi, hey, thank, *)
(* help, yes, good, sure, no, bad, wait, two, why, tiny), separated by a   *)
(* space, and the two sentences "Hello there" and "thank you so much".     *)
Vocabulary ==
    { <<"H", "e", "l", "l", "o">>,
      <<"H", "i">>,
      <<"h", "e", "y">>,
      <<"t", "h", "a", "n", "k">>,
      <<"h", "e", "l", "p">>,
      <<"y", "e", "s">>,
      <<"g", "o", "o", "d">>,
      <<"s", "u", "r", "e">>,
      <<"n", "o">>,
      <<"b", "a", "d">>,
      <<"w", "a", "i", "t">>,
      <<"t", "w", "o">>,
      <<"w", "h", "y">>,
      <<"t", "i", "n", "y">> }

RECURSIVE WordTexts(_)
WordTexts(n) ==
    IF n = 0 THEN { <<>> }
    ELSE LET shorter == WordTexts(n - 1)
         IN  shorter \cup
             { IF t = <<>> THEN w ELSE t \o <<" ">> \o w :
                 t \in shorter, w \in Vocabulary }

MapperTexts ==
    WordTexts(MaxWords) \cup
    { <<"H", "e", "l", "l", "o", " ", "t", "h", "e", "r", "e">>,
      <<"t", "h", "a", "n", "k", " ", "y", "o", "u", " ", "s", "o", " ", "m", "u", "c", "h">> }

(* The mapper at work: one text is submitted to the session and its reply  *)
(* is delivered when its timer is due.                                     *)
TextNext ==
    \/ /\ Len(messages) = 1
       /\ pending = <<>>
       /\ \E input \in MapperTexts : SendMessage(input)
    \/ DeliverScheduledReply
    \/ Tick

SpecText == Init /\ [][TextNext]_vars

(* The classifier at work: sign mode is switched on and one hand of the    *)
(* grid is shown to the session.                                           *)
ClassifyNext ==
    \/ ~is_sign_language_mode /\ ToggleSignLanguage
    \/ /\ last_op.name = "_toggle_sign_language"
       /\ \E hand \in GridHands : ProcessSignLanguage(hand)

SpecClassify == Init /\ [][ClassifyNext]_vars

----------------------------------------------------------------------------
(* Speech at work: the session of FairNext with the speaker button, built  *)
(* with or without pyttsx3.  The button is explored while fewer than       *)
(* MaxSpoken texts have been spoken.                                       *)

(* _toggle_audio *)
ToggleAudio ==
    /\ Len(spoken) < MaxSpoken
    /\ IF ~TTS_AVAILABLE
       THEN UNCHANGED <<is_audio_enabled, spoken>>
       ELSE IF is_audio_enabled
       THEN /\ is_audio_enabled' = FALSE
            /\ UNCHANGED spoken
       ELSE /\ is_audio_enabled' = TRUE
            /\ spoken' = SpeakText(spoken, <<"Audio enabled">>)
    /\ last_op' = Op("_toggle_audio", is_audio_enabled)
    /\ UNCHANGED <<now, log_vars, mode_vars, threads, TTS_AVAILABLE>>

AudioInit == Constructed /\ TTS_AVAILABLE \in BOOLEAN

AudioNext ==
    \/ \E input \in FairTextInputs : SendMessage(input)
    \/ \E hand \in FairHands : ProcessSignLanguage(hand)
    \/ DeliverScheduledReply
    \/ ToggleSignLanguage
    \/ ToggleAudio
    \/ Tick

SpecAudio == AudioInit /\ [][AudioNext]_vars

----------------------------------------------------------------------------
(* The canned replies: _respond_to_sign as the timers call it, with the    *)
(* sign the classifier produced for one hand of the grid, and called with  *)
(* a value that is none of the seven keys.  The session opens with the     *)
(* switch and the hand; the calls, the timers and the clock follow freely. *)

StraySigns == {NoSign, "thumbs_up", "WAVE"}

RespondToSignCall(sign_key) ==
    /\ Len(messages) + Len(pending) + 1 <= MaxLog
    /\ messages' = RespondToSign(messages, sign_key, now)
    /\ origin' = Append(origin, Origin("_respond_to_sign", "ui", 0))
    /\ last_op' = Op("_respond_to_sign", sign_key)
    /\ UNCHANGED <<pending, timer_seq, now, hold, mode_vars, threads>>
    /\ spoken' = Handoff(spoken, SignResponse(sign_key))
    /\ UNCHANGED <<is_audio_enabled, TTS_AVAILABLE>>

ReplyNext ==
    \/ last_op.name = "__init__" /\ ToggleSignLanguage
    \/ /\ last_op.name = "_toggle_sign_language"
       /\ \E hand \in GridHands : ProcessSignLanguage(hand)
    \/ DeliverScheduledReply
    \/ Tick
    \/ \E sign_key \in StraySigns : RespondToSignCall(sign_key)

SpecReply == Init /\ [][ReplyNext]_vars

----------------------------------------------------------------------------
(* The threads.  The UI thread runs _send_message, the timers and the      *)
(* switches; every _start_camera starts a thread running _camera_thread,   *)
(* which calls _process_sign_language itself.  A capture thread is         *)
(* [pc, sign, id]: where it stands, the sign it detected and the id it     *)
(* computed for its message.                                               *)

NewThread == [pc |-> "open", sign |-> NoSign, id |-> 0]

ThreadHands == {FistHand, UnknownHand}

ThreadTextInputs == { <<>>, <<" ", "H", "i", " ">> }

SetThread(i, pc, sign, id) ==
    threads' = [threads EXCEPT ![i] = [pc |-> pc, sign |-> sign, id |-> id]]

(* _toggle_video and _toggle_sign_language with the thread _start_camera starts *)
SwitchThreads(m) ==
    /\ Len(threads) + m.starts <= MaxThreads
    /\ SetModes(m)
    /\ threads' = threads \o [k \in 1..m.starts |-> NewThread]
    /\ UNCHANGED <<now, log_vars>>
    /\ UNCHANGED audio_vars

UIToggleVideo ==
    /\ SwitchThreads(ToggleVideoOf(CurrentModes))
    /\ last_op' = Op("_toggle_video", CurrentModes)

UIToggleSignLanguage ==
    /\ SwitchThreads(ToggleSignLanguageOf(CurrentModes))
    /\ last_op' = Op("_toggle_sign_language", CurrentModes)

(* _camera_thread: cv2.VideoCapture(0), which may fail to open *)
CaptureOpen(i) ==
    /\ threads[i].pc = "open"
    /\ \/ /\ SetThread(i, "loop", NoSign, 0)
          /\ UNCHANGED camera_running
       \/ /\ SetThread(i, "done", NoSign, 0)
          /\ camera_running' = FALSE
    /\ last_op' = Op("capture_open", i)
    /\ UNCHANGED <<now, log_vars, is_video_mode, is_sign_language_mode>>
    /\ UNCHANGED audio_vars

(* while self.camera_running *)
CaptureLoop(i) ==
    /\ threads[i].pc = "loop"
    /\ SetThread(i, IF camera_running THEN "frame" ELSE "done", NoSign, 0)
    /\ last_op' = Op("capture_loop", i)
    /\ UNCHANGED <<now, log_vars, mode_vars>>
    /\ UNCHANGED audio_vars

(* a frame is read; in sign mode its hand is classified *)
CaptureFrame(i, hand) ==
    /\ threads[i].pc = "frame"
    /\ LET detected_sign == RecognizeHandGesture(hand) IN
       IF is_sign_language_mode /\ Detected(detected_sign)
       THEN SetThread(i, "check", detected_sign, 0)
       ELSE SetThread(i, "loop", NoSign, 0)
    /\ last_op' = Op("capture_frame", hand)
    /\ UNCHANGED <<now, log_vars, mode_vars>>
    /\ UNCHANGED audio_vars

(* the dedup test *)
CaptureCheck(i) ==
    /\ threads[i].pc = "check"
    /\ IF IsNewDetection(messages, threads[i].sign)
       THEN /\ Room(SignDelay)
            /\ SetThread(i, "build", threads[i].sign, 0)
            /\ hold' = HoldGesture(hold, threads[i].sign, 1)
       ELSE /\ SetThread(i, "loop", NoSign, 0)
            /\ hold' = HoldGesture(hold, threads[i].sign, 0)
    /\ last_op' = Op("capture_check", i)
    /\ UNCHANGED <<now, messages, pending, timer_seq, origin, mode_vars>>
    /\ UNCHANGED audio_vars

(* the message is built: "id": len(self.messages) + 1 *)
CaptureBuild(i) ==
    /\ threads[i].pc = "build"
    /\ SetThread(i, "append", threads[i].sign, NewId(messages))
    /\ last_op' = Op("capture_build", i)
    /\ UNCHANGED <<now, log_vars, mode_vars>>
    /\ UNCHANGED audio_vars

(* self.messages.append, on the capture thread *)
CaptureAppend(i) ==
    /\ threads[i].pc = "append"
    /\ messages' = Append(messages,
           [SignMessage(messages, threads[i].sign, now) EXCEPT !.id = threads[i].id])
    /\ origin' = Append(origin, Origin("on_gesture", "capture", 0))
    /\ SetThread(i, "schedule", threads[i].sign, 0)
    /\ last_op' = Op("capture_append", i)
    /\ UNCHANGED <<now, pending, timer_seq, hold, mode_vars>>
    /\ UNCHANGED audio_vars

(* self.root.after(1000, ...) *)
CaptureSchedule(i) ==
    /\ threads[i].pc = "schedule"
    /\ pending' = After(pending,
           [id |-> timer_seq + 1, due |-> now + SignDelay,
            callback |-> "_respond_to_sign", sign_key |-> threads[i].sign])
    /\ timer_seq' = timer_seq + 1
    /\ SetThread(i, "loop", NoSign, 0)
    /\ last_op' = Op("capture_schedule", i)
    /\ UNCHANGED <<now, messages, origin, hold, mode_vars>>
    /\ UNCHANGED audio_vars

ThreadsNext ==
    \/ \E input \in ThreadTextInputs : SendMessage(input)
    \/ DeliverScheduledReply
    \/ UIToggleVideo
    \/ UIToggleSignLanguage
    \/ Tick
    \/ \E i \in 1..Len(threads) : CaptureOpen(i)
    \/ \E i \in 1..Len(threads) : CaptureLoop(i)
    \/ \E i \in 1..Len(threads) : \E hand \in ThreadHands : CaptureFrame(i, hand)
    \/ \E i \in 1..Len(threads) : CaptureCheck(i)
    \/ \E i \in 1..Len(threads) : CaptureBuild(i)
    \/ \E i \in 1..Len(threads) : CaptureAppend(i)
    \/ \E i \in 1..Len(threads) : CaptureSchedule(i)

SpecThreads == Init /\ [][ThreadsNext]_vars

----------------------------------------------------------------------------
(* Properties *)

IsSignMsg(m, s) == m.sender = "sign" /\ m.sign_key = s

OriginOps == {origin[i].op : i \in 1..Len(origin)}

Blank(input) == \A i \in 1..Len(input) : input[i] \in Whitespace

(* C1: after any sequence of submit_text, on_gesture and                   *)
(* deliver_scheduled_reply, run one at a time, the message at position i   *)
(* of the log has id i: ids rise by exactly 1, with no gap and no reuse.   *)
C1_IdIsPosition == \A i \in 1..Len(messages) : messages[i].id = i

(* a log to which all three operations have appended *)
C1_Witness ==
    /\ Len(messages) >= 4
    /\ {"submit_text", "on_gesture", "deliver_scheduled_reply"} \subseteq OriginOps

(* C2: in every reachable state the log never holds two adjacent sign      *)
(* messages with the same SignId.  It holds of Spec, where on_gesture is   *)
(* one step, and fails of SpecThreads, where two capture threads both pass *)
(* the dedup test before either appends.                                   *)
C2_NoAdjacentSameSign ==
    \A i \in 1..(Len(messages) - 1) :
        ~ /\ messages[i].sender = "sign"
          /\ messages[i + 1].sender = "sign"
          /\ messages[i].sign_key = messages[i + 1].sign_key

(* C3: with sign(X) last in the log at position k, on_gesture with a hand  *)
(* classified X appends nothing and schedules nothing; with a hand         *)
(* classified Y, Y # X, it appends sign(Y) at position k + 1.              *)
C3_DedupStep ==
    [][ (last_op'.name = "on_gesture" /\ Last(messages).sender = "sign") =>
        LET s == RecognizeHandGesture(last_op'.arg)
            k == Len(messages)
        IN  /\ s = Last(messages).sign_key =>
                  /\ messages' = messages
                  /\ pending' = pending
                  /\ timer_seq' = timer_seq
            /\ (s \in SignIds /\ s # Last(messages).sign_key) =>
                  /\ Len(messages') = k + 1
                  /\ SubSeq(messages', 1, k) = messages
                  /\ IsSignMsg(messages'[k + 1], s)
                  /\ messages'[k + 1].id = k + 1 ]_vars

(* sign(Y) was appended right behind sign(X), and Y shown again was suppressed *)
C3_Witness ==
    /\ Len(messages) >= 3
    /\ last_op.name = "on_gesture"
    /\ last_op.len_before = Len(messages)
    /\ last_op.pending_before = Len(pending)
    /\ IsSignMsg(Last(messages), RecognizeHandGesture(last_op.arg))
    /\ messages[Len(messages) - 1].sender = "sign"

(* C4: consecutive on_gesture calls that all classify to X, with no text   *)
(* submission and no differently classified gesture between them, yield    *)
(* exactly one sign message and exactly one bot reply, whenever scheduled  *)
(* replies are delivered.  (A run is counted from the start, from the last *)
(* accepted text or from the last gesture classified otherwise.)           *)
C4_HeldPoseOnce ==
    hold.calls >= 1 => hold.sign_msgs = 1 /\ hold.scheduled = 1

(* C5: every bot message of the log was appended by the delivery of a      *)
(* reply scheduled by submit_text or on_gesture.                           *)
C5_BotOnlyByDelivery ==
    \A i \in 1..Len(messages) :
        messages[i].sender = "bot" => origin[i].op = "deliver_scheduled_reply"

(* C5 as amended: every bot message other than the greeting that __init__  *)
(* puts at position 1 was appended by the delivery of a timer registered   *)
(* by submit_text or on_gesture, and no delivery appends anything else.    *)
C5_BotOnlyByDeliveryOrInit ==
    /\ messages[1].sender = "bot" /\ origin[1].op = "__init__"
    /\ \A i \in 2..Len(messages) :
          /\ messages[i].sender = "bot" <=> origin[i].op = "deliver_scheduled_reply"
          /\ messages[i].sender = "bot" =>
                /\ origin[i].timer \in 1..timer_seq
                /\ \A j \in 1..Len(pending) : pending[j].id # origin[i].timer

(* replies to a text and to a gesture have both been delivered *)
C5_Witness ==
    /\ Len(messages) = 5
    /\ messages[4].sender = "bot" /\ messages[5].sender = "bot"
    /\ {"submit_text", "on_gesture"} \subseteq OriginOps

(* C6: a scheduled reply is never cancelled: every timer registered by an  *)
(* accepted input is run, exactly once, also when other inputs arrive      *)
(* before it fires, and when the inputs have stopped no reply is pending.  *)
C6_AlwaysFires ==
    /\ [][ /\ \A j \in 1..Len(pending) :
                \/ \E i \in 1..Len(pending') : pending'[i] = pending[j]
                \/ /\ Len(messages') = Len(messages) + 1
                   /\ Last(messages').sender = "bot"
                   /\ Last(origin').timer = pending[j].id
           /\ \A i, j \in 1..Len(origin') :
                (origin'[i].timer # 0 /\ origin'[i].timer = origin'[j].timer)
                    => i = j
           /\ Len(messages') + Len(pending') = 1 + 2 * timer_seq' ]_vars
    /\ \A t \in 1..MaxLog :
          (\E j \in 1..Len(pending) : pending[j].id = t)
              ~> (\E i \in 1..Len(origin) : origin[i].timer = t)
    /\ <>[](pending = <<>>)

(* two inputs were accepted before either reply, and both replies came *)
C6_Witness ==
    /\ Len(messages) = 5
    /\ pending = <<>>
    /\ origin[2].timer = 0 /\ origin[3].timer = 0
    /\ {origin[4].timer, origin[5].timer} = {1, 2}

(* C7: every operation leaves the messages already in the log as they are: *)
(* the log before it is a prefix of the log after it.                      *)
C7_AppendOnly == [][IsPrefix(messages, messages')]_vars

(* a delivery has appended to a log of four messages *)
C7_Witness ==
    /\ last_op.name = "deliver_scheduled_reply"
    /\ last_op.len_before = 4
    /\ Len(messages) = 5

(* C8: submit_text with an empty or whitespace-only string can always be   *)
(* taken and changes neither the log nor the timers.                       *)
C8_BlankIsNoOp ==
    /\ [](\A input \in TextInputs : Blank(input) => ENABLED SendMessage(input))
    /\ [][ (last_op'.name = "submit_text" /\ Blank(last_op'.arg)) =>
             /\ messages' = messages
             /\ pending' = pending
             /\ timer_seq' = timer_seq ]_vars

(* three spaces were submitted while a reply was pending *)
C8_Witness ==
    /\ last_op.name = "submit_text"
    /\ last_op.arg = <<" ", " ", " ">>
    /\ Len(pending) >= 1
    /\ Len(messages) >= 2

(* C9: submit_text with a non-empty text appends exactly one user message  *)
(* and no bot message, and registers exactly one timer, due after the text *)
(* delay, whose delivery appends the reply and sign computed from the text. *)
C9_SubmitAppendsAndSchedules ==
    [][ (last_op'.name = "submit_text" /\ ~Blank(last_op'.arg)) =>
        LET text == Strip(last_op'.arg)
            k == Len(messages)
        IN  /\ Len(messages') = k + 1
            /\ SubSeq(messages', 1, k) = messages
            /\ messages'[k + 1].sender = "user"
            /\ messages'[k + 1].text = text
            /\ Len(pending') = Len(pending) + 1
            /\ \E j \in 1..Len(pending') :
                  /\ pending' = After(pending, pending'[j])
                  /\ pending'[j].id \notin {pending[i].id : i \in 1..Len(pending)}
                  /\ pending'[j].due = now + TextDelay
                  /\ LET reply == Last(RunCallback(messages', pending'[j], now'))
                     IN  /\ reply.sender = "bot"
                         /\ reply.text = BotResponse(text, TextToSign(text)).text
                         /\ reply.sign_key = BotResponse(text, TextToSign(text)).sign_key
        ]_vars

(* " Hi " was submitted while another reply was pending *)
C9_Witness ==
    /\ last_op.name = "submit_text"
    /\ last_op.arg = <<" ", "H", "i", " ">>
    /\ last_op.pending_before = 1
    /\ Len(pending) = 2
    /\ Last(messages).text = <<"H", "i">>

(* C10: only the UI thread of the session mutates the log: no message of  *)
(* the log was appended by a capture thread.                               *)
C10_SingleWriter == \A i \in 1..Len(origin) : origin[i].thread = "ui"


(* C11: on_gesture with a hand the classifier maps to no sign changes      *)
(* nothing: the log, the pending replies and what the dedup test answers   *)
(* for each sign stay as they were.                                        *)
C11_NoSignNoChange ==
    [][ (last_op'.name = "on_gesture"
            /\ RecognizeHandGesture(last_op'.arg) = NoSign) =>
          /\ messages' = messages
          /\ pending' = pending
          /\ timer_seq' = timer_seq
          /\ \A s \in SignIds :
                IsNewDetection(messages', s) = IsNewDetection(messages, s) ]_vars

(* an unrecognised hand was shown behind a sign message, its reply pending *)
C11_Witness ==
    /\ last_op.name = "on_gesture"
    /\ RecognizeHandGesture(last_op.arg) = NoSign
    /\ Last(messages).sender = "sign"
    /\ Len(pending) >= 1


(* C12: an on_gesture that classifies to S and is not suppressed appends   *)
(* one sign message carrying S and registers exactly one timer; the        *)
(* delivery of that timer appends a bot message whose sign is S and whose  *)
(* text is the canned sentence of S, and the seven SignIds have seven      *)
(* different sentences (for CLOSED_FIST "I'll wait for your next           *)
(* instruction.").                                                         *)
C12_SignReply ==
    [][ /\ \A s1, s2 \in SignIds :
              s1 # s2 => SignResponse(s1) # SignResponse(s2)
        /\ SignResponse("CLOSED_FIST") = <<"I'll wait for your next instruction.">>
        /\ LET S == RecognizeHandGesture(last_op'.arg)
               k == Len(messages)
           IN  (last_op'.name = "on_gesture" /\ S \in SignIds
                    /\ IsNewDetection(messages, S)) =>
                 /\ Len(messages') = k + 1
                 /\ SubSeq(messages', 1, k) = messages
                 /\ IsSignMsg(messages'[k + 1], S)
                 /\ Len(pending') = Len(pending) + 1
                 /\ \E j \in 1..Len(pending') :
                       /\ pending'[j].id \notin {pending[i].id : i \in 1..Len(pending)}
                       /\ \A i \in 1..Len(pending') :
                             i # j => \E n \in 1..Len(pending) : pending[n] = pending'[i]
                       /\ pending'[j].callback = "_respond_to_sign"
                       /\ pending'[j].sign_key = S
                       /\ pending'[j].due = now + SignDelay
        /\ (last_op'.name = "deliver_scheduled_reply"
                /\ Head(pending).callback = "_respond_to_sign") =>
              /\ Len(messages') = Len(messages) + 1
              /\ Last(messages').sender = "bot"
              /\ Last(messages').sign_key = Head(pending).sign_key
              /\ Last(messages').text = SignResponse(Head(pending).sign_key)
      ]_vars

(* the reply to a fist was delivered right behind the fist's message *)
C12_Witness ==
    /\ last_op.name = "deliver_scheduled_reply"
    /\ Len(messages) >= 3
    /\ IsSignMsg(messages[Len(messages) - 1], "CLOSED_FIST")
    /\ Last(messages).sender = "bot"
    /\ Last(messages).sign_key = "CLOSED_FIST"
    /\ Last(messages).text = <<"I'll wait for your next instruction.">>


(* C13: the classifier answers with the sign of the earliest rule, in the  *)
(* order THUMBS_UP, THUMBS_DOWN, OPEN_PALM, CLOSED_FIST, PEACE_SIGN,       *)
(* POINTING_UP, PINCH, whose body the hand satisfies, and with no sign     *)
(* when it satisfies none; the session logs that sign, or nothing.         *)
C13_FirstMatch ==
    last_op.name = "on_gesture" =>
        LET h == last_op.arg
            up(t, p) == t.y < p.y
            down(t, p) == t.y > p.y
            order == << "THUMBS_UP", "THUMBS_DOWN", "OPEN_PALM", "CLOSED_FIST",
                        "PEACE_SIGN", "POINTING_UP", "PINCH" >>
            body ==
              << /\ up(h.thumb_tip, h.thumb_ip)
                 /\ down(h.index_tip, h.index_pip)
                 /\ down(h.middle_tip, h.middle_pip),
                 /\ down(h.thumb_tip, h.thumb_ip)
                 /\ down(h.index_tip, h.index_pip)
                 /\ down(h.middle_tip, h.middle_pip),
                 /\ up(h.index_tip, h.index_pip)
                 /\ up(h.middle_tip, h.middle_pip)
                 /\ up(h.ring_tip, h.ring_pip)
                 /\ up(h.pinky_tip, h.pinky_pip),
                 /\ down(h.index_tip, h.index_pip)
                 /\ down(h.middle_tip, h.middle_pip)
                 /\ down(h.ring_tip, h.ring_pip)
                 /\ down(h.pinky_tip, h.pinky_pip),
                 /\ up(h.index_tip, h.index_pip)
                 /\ up(h.middle_tip, h.middle_pip)
                 /\ down(h.ring_tip, h.ring_pip)
                 /\ down(h.pinky_tip, h.pinky_pip),
                 /\ up(h.index_tip, h.index_pip)
                 /\ down(h.middle_tip, h.middle_pip)
                 /\ down(h.ring_tip, h.ring_pip)
                 /\ down(h.pinky_tip, h.pinky_pip),
                 /\ h.thumb_tip.x - h.index_tip.x \in -4..4
                 /\ h.thumb_tip.y - h.index_tip.y \in -4..4 >>
            sat == {i \in 1..7 : body[i]}
            expected ==
                IF sat = {} THEN NoSign
                ELSE order[CHOOSE i \in sat : \A j \in sat : i <= j]
        IN  /\ RecognizeHandGesture(h) = expected
            /\ IF expected = NoSign
               THEN Len(messages) = 1 /\ pending = <<>>
               ELSE Len(messages) = 2 /\ IsSignMsg(messages[2], expected)

(* a hand that is both a thumbs-up and a fist was logged as THUMBS_UP *)
C13_Witness ==
    /\ last_op.name = "on_gesture"
    /\ IsThumbsUp(last_op.arg) /\ IsClosedFist(last_op.arg)
    /\ Len(messages) = 2
    /\ messages[2].sign_key = "THUMBS_UP"


(* C14: some hand satisfies the THUMBS_UP body and the OPEN_PALM body      *)
(* together, and every such hand is classified THUMBS_UP.                  *)
C14_UpAndPalm ==
    LET up(h) == /\ h.thumb_tip.y < h.thumb_ip.y
                 /\ h.index_tip.y > h.index_pip.y
                 /\ h.middle_tip.y > h.middle_pip.y
        palm(h) == /\ h.index_tip.y < h.index_pip.y
                   /\ h.middle_tip.y < h.middle_pip.y
                   /\ h.ring_tip.y < h.ring_pip.y
                   /\ h.pinky_tip.y < h.pinky_pip.y
    IN  /\ \E h \in GridHands : up(h) /\ palm(h)
        /\ (last_op.name = "on_gesture" /\ up(last_op.arg) /\ palm(last_op.arg))
              => RecognizeHandGesture(last_op.arg) = "THUMBS_UP"

(* C14 as amended: a hand satisfying the OPEN_PALM body is never taken for *)
(* a thumbs-up, it is classified and logged OPEN_PALM (THUMBS_UP needs the *)
(* index curled, OPEN_PALM needs it extended); a hand satisfying the       *)
(* THUMBS_UP body and the CLOSED_FIST body together is classified and      *)
(* logged THUMBS_UP.                                                       *)
C14_UpBeatsFistNotPalm ==
    last_op.name = "on_gesture" =>
        LET h == last_op.arg
            thumb_up == h.thumb_tip.y < h.thumb_ip.y
            ext(t, p) == t.y < p.y
            cur(t, p) == t.y > p.y
            palm == /\ ext(h.index_tip, h.index_pip)
                    /\ ext(h.middle_tip, h.middle_pip)
                    /\ ext(h.ring_tip, h.ring_pip)
                    /\ ext(h.pinky_tip, h.pinky_pip)
            fist == /\ cur(h.index_tip, h.index_pip)
                    /\ cur(h.middle_tip, h.middle_pip)
                    /\ cur(h.ring_tip, h.ring_pip)
                    /\ cur(h.pinky_tip, h.pinky_pip)
        IN  /\ palm => /\ RecognizeHandGesture(h) = "OPEN_PALM"
                       /\ IsSignMsg(Last(messages), "OPEN_PALM")
            /\ (thumb_up /\ fist) =>
                       /\ RecognizeHandGesture(h) = "THUMBS_UP"
                       /\ IsSignMsg(Last(messages), "THUMBS_UP")

(* an open palm with the thumb up was shown and logged OPEN_PALM *)
C14_Witness ==
    /\ last_op.name = "on_gesture"
    /\ IsOpenPalm(last_op.arg)
    /\ last_op.arg.thumb_tip.y < last_op.arg.thumb_ip.y
    /\ IsSignMsg(Last(messages), "OPEN_PALM")
    /\ Len(pending) = 1 /\ pending[1].sign_key = "OPEN_PALM"


(* C15: for a hand matching none of the six earlier rules the classifier   *)
(* answers PINCH when the thumb tip and the index tip are less than 0.05   *)
(* apart in x and in y, and answers no sign when either distance is        *)
(* exactly 0.05 or more; PINCH is never answered otherwise.                *)
C15_PinchStrict ==
    last_op.name = "on_gesture" =>
        LET h == last_op.arg
            dx == Abs(h.thumb_tip.x - h.index_tip.x)
            dy == Abs(h.thumb_tip.y - h.index_tip.y)
            r == RecognizeHandGesture(h)
            earlier == \/ IsThumbsUp(h) \/ IsThumbsDown(h) \/ IsOpenPalm(h)
                       \/ IsClosedFist(h) \/ IsPeaceSign(h) \/ IsPointingUp(h)
        IN  /\ r = "PINCH" => dx \in 0..4 /\ dy \in 0..4 /\ ~earlier
            /\ ~earlier =>
                  IF dx \in 0..4 /\ dy \in 0..4
                  THEN r = "PINCH" /\ IsSignMsg(Last(messages), "PINCH")
                  ELSE r = NoSign /\ Len(messages) = 1

(* thumb and index tips exactly 0.05 apart in x and closer in y: no sign *)
C15_Witness ==
    /\ last_op.name = "on_gesture"
    /\ Abs(last_op.arg.thumb_tip.x - last_op.arg.index_tip.x) = 5
    /\ Abs(last_op.arg.thumb_tip.y - last_op.arg.index_tip.y) = 4
    /\ RecognizeHandGesture(last_op.arg) = NoSign
    /\ Len(messages) = 1


(* C16: for a submitted text that contains "hello" or "hi" in any case,    *)
(* one user message is appended at once and nothing else, and the bot      *)
(* message delivered for it is the greeting reply with sign OPEN_PALM.     *)
C16_GreetingReply ==
    LET greets(text) ==
            \/ Contains(Lower(text), <<"h", "e", "l", "l", "o">>)
            \/ Contains(Lower(text), <<"h", "i">>)
    IN  /\ (last_op.name = "submit_text" /\ greets(last_op.arg)) =>
              /\ Len(messages) = 2
              /\ messages[2].sender = "user"
              /\ messages[2].text = last_op.arg
              /\ Len(pending) = 1
        /\ (Len(messages) >= 3 /\ greets(messages[2].text)) =>
              /\ messages[3].sender = "bot"
              /\ messages[3].text = <<"Hello! How can I help you today?">>
              /\ messages[3].sign_key = "OPEN_PALM"

(* the reply to "Hello there" has been delivered *)
C16_Witness ==
    /\ Len(messages) = 3
    /\ messages[2].text = <<"H", "e", "l", "l", "o", " ", "t", "h", "e", "r", "e">>
    /\ messages[3].sender = "bot"
    /\ messages[3].sign_key = "OPEN_PALM"
    /\ last_op.name = "deliver_scheduled_reply"


(* C17: for a submitted text that contains "thank" and neither "hello" nor *)
(* "hi", the delivered bot message is the gratitude reply and its sign is  *)
(* THUMBS_UP, whatever sign the first pass suggested for the text.         *)
C17_ThankReply ==
    LET has(text, word) == Contains(Lower(text), word)
    IN  (/\ Len(messages) >= 3
         /\ has(messages[2].text, <<"t", "h", "a", "n", "k">>)
         /\ ~has(messages[2].text, <<"h", "e", "l", "l", "o">>)
         /\ ~has(messages[2].text, <<"h", "i">>)) =>
            /\ messages[3].sender = "bot"
            /\ messages[3].text = <<"You're welcome! Is there anything else you need?">>
            /\ messages[3].sign_key = "THUMBS_UP"

(* "thank no", for which the first pass suggests THUMBS_DOWN, was answered *)
C17_Witness ==
    /\ Len(messages) = 3
    /\ messages[2].text = <<"t", "h", "a", "n", "k", " ", "n", "o">>
    /\ TextToSign(messages[2].text) = "THUMBS_DOWN"
    /\ messages[3].sign_key = "THUMBS_UP"


(* C18: the sign the first pass suggests for a text, carried by the timer  *)
(* that submit_text registers, is the sign of the earliest keyword group   *)
(* present in the text, in the order greeting OPEN_PALM, assent THUMBS_UP, *)
(* dissent THUMBS_DOWN, wait/stop CLOSED_FIST, peace/number PEACE_SIGN,    *)
(* question POINTING_UP, smallness PINCH, and OPEN_PALM when no group is   *)
(* present.                                                                *)
C18_FirstGroup ==
    (last_op.name = "submit_text" /\ Len(messages) = 2) =>
        LET text == messages[2].text
            groups == << GreetWords, AssentWords, DissentWords, WaitWords,
                         PeaceWords, QuestionWords, SmallWords >>
            signs == << "OPEN_PALM", "THUMBS_UP", "THUMBS_DOWN", "CLOSED_FIST",
                        "PEACE_SIGN", "POINTING_UP", "PINCH" >>
            present == {i \in 1..7 : AnyIn(groups[i], Lower(text))}
            expected ==
                IF present = {} THEN "OPEN_PALM"
                ELSE signs[CHOOSE i \in present : \A j \in present : i <= j]
        IN  /\ Len(pending) = 1
            /\ pending[1].user_message = text
            /\ pending[1].sign_key = expected

(* "tiny why": the question group wins over the smallness word before it *)
C18_Witness ==
    /\ last_op.name = "submit_text"
    /\ Len(messages) = 2
    /\ messages[2].text = <<"t", "i", "n", "y", " ", "w", "h", "y">>
    /\ Len(pending) = 1
    /\ pending[1].sign_key = "POINTING_UP"


(* C19: the delivery of a text reply takes the first of the branches       *)
(* hello/hi, thank, help, assent (yes, yeah, ok, sure), dissent (no, nope, *)
(* don't, not), else that the text matches; the sign of the bot message is *)
(* THUMBS_UP for thank and assent, OPEN_PALM for help, THUMBS_DOWN for     *)
(* dissent, and the sign the first pass bound to the timer for hello/hi    *)
(* and else.                                                               *)
C19_ReplySign ==
    [][ (last_op'.name = "deliver_scheduled_reply"
            /\ Head(pending).callback = "_send_bot_response") =>
        LET t == Lower(Head(pending).user_message)
            suggested == Head(pending).sign_key
            has(words) == \E w \in words : Contains(t, w)
            expected ==
                IF has({<<"h", "e", "l", "l", "o">>, <<"h", "i">>}) THEN suggested
                ELSE IF has({<<"t", "h", "a", "n", "k">>}) THEN "THUMBS_UP"
                ELSE IF has({<<"h", "e", "l", "p">>}) THEN "OPEN_PALM"
                ELSE IF has({<<"y", "e", "s">>, <<"y", "e", "a", "h">>, <<"o", "k">>, <<"s", "u", "r", "e">>})
                     THEN "THUMBS_UP"
                ELSE IF has({<<"n", "o">>, <<"n", "o", "p", "e">>, <<"d", "o", "n", "'", "t">>, <<"n", "o", "t">>})
                     THEN "THUMBS_DOWN"
                ELSE suggested
        IN  /\ Len(messages') = Len(messages) + 1
            /\ Last(messages').sender = "bot"
            /\ Last(messages').sign_key = expected ]_vars

(* "help yes" was answered with OPEN_PALM: help comes before assent, and   *)
(* the first pass had suggested THUMBS_UP                                  *)
C19_Witness ==
    /\ last_op.name = "deliver_scheduled_reply"
    /\ Len(messages) = 3
    /\ messages[2].text = <<"h", "e", "l", "p", " ", "y", "e", "s">>
    /\ TextToSign(messages[2].text) = "THUMBS_UP"
    /\ messages[3].sign_key = "OPEN_PALM"


(* C20: a call of _respond_to_sign with a value that is none of the seven  *)
(* keys appends one bot message holding the generic sentence and that      *)
(* value; the classifier produces one of the seven keys or nothing, and    *)
(* the reply to a sign it produced is never the generic sentence.          *)
C20_LookupTotal ==
    [][ LET generic == <<"I see you're using sign language. How can I help?">>
            k == Len(messages)
        IN  /\ (last_op'.name = "_respond_to_sign" /\ last_op'.arg \notin SignIds) =>
                  /\ Len(messages') = k + 1
                  /\ SubSeq(messages', 1, k) = messages
                  /\ messages'[k + 1].sender = "bot"
                  /\ messages'[k + 1].text = generic
                  /\ messages'[k + 1].sign_key = last_op'.arg
            /\ last_op'.name = "on_gesture" =>
                  /\ RecognizeHandGesture(last_op'.arg) \in SignIds \cup {NoSign}
                  /\ \A j \in 1..Len(pending') : pending'[j].sign_key \in SignIds
            /\ (last_op'.name = "deliver_scheduled_reply"
                    /\ Head(pending).callback = "_respond_to_sign") =>
                  /\ Len(messages') = k + 1
                  /\ Last(messages').sign_key = Head(pending).sign_key
                  /\ Last(messages').text # generic ]_vars

(* the lookup was called with a value in lower case, behind the reply to a *)
(* pinch the classifier had produced                                       *)
C20_Witness ==
    /\ last_op.name = "_respond_to_sign"
    /\ last_op.arg = "thumbs_up"
    /\ Len(messages) = 4
    /\ IsSignMsg(messages[2], "PINCH")
    /\ messages[3].text = <<"I understand you're referring to something small or precise.">>
    /\ messages[4].sender = "bot"
    /\ messages[4].sign_key = "thumbs_up"
    /\ messages[4].text = <<"I see you're using sign language. How can I help?">>


(* C21: the delivery of a bot message hands its text, once and unchanged,  *)
(* to the speech engine exactly when the audio flag is set as the delivery *)
(* runs, whatever the flag was when the reply was scheduled; a step that   *)
(* appends a user or a sign message hands nothing over.                    *)
C21_SpeechOnDelivery ==
    [][ /\ last_op'.name = "deliver_scheduled_reply" =>
              /\ Last(messages').sender = "bot"
              /\ IF is_audio_enabled
                 THEN spoken' = Append(spoken, Last(messages').text)
                 ELSE spoken' = spoken
        /\ last_op'.name \in {"submit_text", "on_gesture"} => spoken' = spoken
      ]_vars

(* the reply to " Hi " was spoken after the button's own announcement *)
C21_Witness ==
    /\ last_op.name = "deliver_scheduled_reply"
    /\ is_audio_enabled
    /\ Len(messages) = 3
    /\ messages[2].sender = "user"
    /\ spoken = << <<"Audio enabled">>, messages[3].text >>


(* C22: with one capture thread at work beside the UI thread, no two       *)
(* messages of the log share an id and the message at position i has id i. *)
(* It fails: the capture thread computes len(self.messages) + 1, the UI    *)
(* thread appends, and the capture thread appends under the stale id.      *)
C22_IdsUnderInterleaving ==
    Len(threads) <= 1 =>
        /\ \A i, j \in 1..Len(messages) :
              i # j => messages[i].id # messages[j].id
        /\ \A i \in 1..Len(messages) : messages[i].id = i


(* C23: _toggle_video invoked with video mode on returns with video mode   *)
(* off and the camera not running, and with sign mode off if it was on.    *)
(* It fails with sign mode on: the nested _toggle_sign_language finds      *)
(* video mode off and turns the camera on again before it leaves sign mode.*)
C23_CameraOffIsOff ==
    [][ (last_op'.name = "_toggle_video" /\ is_video_mode) =>
            /\ ~is_video_mode'
            /\ ~camera_running'
            /\ is_sign_language_mode => ~is_sign_language_mode' ]_vars


(* C24: a delivery appends its bot message behind the message whose        *)
(* acceptance scheduled it: the timer numbered n was registered by the     *)
(* n-th user or sign message, which is in the log, holding the timer's     *)
(* text or sign, when the timer runs.  In every state the bot messages are *)
(* at most one more than the user and sign messages.                       *)
C24_ReplyFollowsTrigger ==
    [][ LET e == Head(pending)
            k == Len(messages)
            accepted(log, j) ==
                Cardinality({m \in 1..j : log[m].sender \in {"user", "sign"}})
            bots(log) ==
                Cardinality({m \in 1..Len(log) : log[m].sender = "bot"})
        IN  /\ last_op'.name = "deliver_scheduled_reply" =>
                  /\ Len(messages') = k + 1
                  /\ SubSeq(messages', 1, k) = messages
                  /\ messages'[k + 1].sender = "bot"
                  /\ \E j \in 2..k :
                        /\ accepted(messages, j) = e.id
                        /\ IF e.callback = "_send_bot_response"
                           THEN /\ messages[j].sender = "user"
                                /\ messages[j].text = e.user_message
                           ELSE IsSignMsg(messages[j], e.sign_key)
            /\ bots(messages') <= 1 + accepted(messages', Len(messages')) ]_vars

(* the reply to a fist was delivered behind a later text and its reply *)
C24_Witness ==
    /\ last_op.name = "deliver_scheduled_reply"
    /\ Len(messages) = 5
    /\ IsSignMsg(messages[2], "CLOSED_FIST")
    /\ messages[3].sender = "user"
    /\ messages[4].sender = "bot" /\ messages[4].sign_key # "CLOSED_FIST"
    /\ messages[5].sender = "bot" /\ messages[5].sign_key = "CLOSED_FIST"
    /\ origin[5].timer = 1


(* C25: a reply is due 500 ms after its text was accepted and 1000 ms      *)
(* after its gesture was accepted, and a delivery runs a timer than which  *)
(* none pending is due earlier; so of two timers the one due earlier has   *)
(* its reply earlier in the log, two text replies keep the order of        *)
(* submission, and a text accepted less than 500 ms after a gesture is     *)
(* answered before the gesture.                                            *)
C25_DueTimeOrder ==
    [][ /\ \A j \in 1..Len(pending') :
              pending'[j].id > timer_seq =>
                  pending'[j].due =
                      now + (IF pending'[j].callback = "_send_bot_response"
                             THEN 500 ELSE 1000)
        /\ last_op'.name = "deliver_scheduled_reply" =>
              /\ Last(origin').timer = Head(pending).id
              /\ Head(pending).due <= now
              /\ \A j \in 2..Len(pending) :
                    /\ Head(pending).due <= pending[j].due
                    /\ Head(pending).due = pending[j].due =>
                          Head(pending).id < pending[j].id
                    /\ (Head(pending).callback = "_send_bot_response"
                          /\ pending[j].callback = "_send_bot_response") =>
                          Head(pending).id < pending[j].id ]_vars

(* a gesture, then a text at the same instant: the text's timer, the       *)
(* second, was run first and the gesture's timer after it                  *)
C25_Witness ==
    /\ last_op.name = "deliver_scheduled_reply"
    /\ pending = <<>>
    /\ Len(messages) = 5
    /\ messages[2].sender = "sign"
    /\ messages[3].sender = "user"
    /\ origin[4].timer = 2
    /\ origin[5].timer = 1
    /\ messages[5].sign_key = messages[2].sign_key


(* C26: a frame is taken for CLOSED_FIST only if its thumb tip is exactly  *)
(* as high as the thumb joint: a frame with index, middle, ring and pinky  *)
(* curled and the thumb tip above or below the joint is taken for          *)
(* THUMBS_UP or THUMBS_DOWN.                                               *)
C26_FistOnlyOnLevelThumb ==
    last_op.name = "on_gesture" =>
        LET h == last_op.arg
            curled == /\ h.index_tip.y > h.index_pip.y
                      /\ h.middle_tip.y > h.middle_pip.y
                      /\ h.ring_tip.y > h.ring_pip.y
                      /\ h.pinky_tip.y > h.pinky_pip.y
        IN  /\ (Len(messages) = 2 /\ messages[2].sign_key = "CLOSED_FIST") =>
                  h.thumb_tip.y = h.thumb_ip.y
            /\ RecognizeHandGesture(h) = "CLOSED_FIST" =>
                  h.thumb_tip.y = h.thumb_ip.y
            /\ (curled /\ h.thumb_tip.y # h.thumb_ip.y) =>
                  /\ Len(messages) = 2
                  /\ messages[2].sender = "sign"
                  /\ messages[2].sign_key \in {"THUMBS_UP", "THUMBS_DOWN"}

(* four curled fingers with the thumb tip a hundredth below its joint were *)
(* logged as THUMBS_DOWN                                                   *)
C26_Witness ==
    /\ last_op.name = "on_gesture"
    /\ last_op.arg = GridHand(1, 0, Reach, Reach, Reach, Reach)
    /\ Len(messages) = 2
    /\ IsSignMsg(messages[2], "THUMBS_DOWN")


(* C27: after any sequence of _toggle_video and _toggle_sign_language,     *)
(* with the libraries available, sign mode on implies video mode on.       *)
C27_SignNeedsVideo == is_sign_language_mode => is_video_mode

(* Sign Mode was clicked with the camera off, and switched the camera on   *)
(* with it                                                                 *)
C27_Witness ==
    /\ last_op.name = "_toggle_sign_language"
    /\ ~last_op.arg.video
    /\ is_sign_language_mode
    /\ is_video_mode
    /\ Len(messages) > 1


(* C28: at most one capture thread is inside the capture loop, reading a   *)
(* frame or processing it, at any time.  It fails: a thread that was       *)
(* started earlier never sees camera_running False when the camera is      *)
(* switched on again before it tests the flag.                             *)
C28_OneThreadInLoop ==
    \A i, j \in 1..Len(threads) :
        (/\ threads[i].pc \in {"frame", "check", "build", "append", "schedule"}
         /\ threads[j].pc \in {"frame", "check", "build", "append", "schedule"})
            => i = j


(* C29: in every reachable state every bot message and every sign message  *)
(* of the log carries a sign, one of the seven, no user message carries    *)
(* one, and the text of a sign message is the meaning sign_dict gives to   *)
(* its sign ("Wait" for CLOSED_FIST).                                      *)
C29_SignsOnMessages ==
    \A i \in 1..Len(messages) :
        LET m == messages[i] IN
        /\ m.sender \in {"user", "sign", "bot"}
        /\ m.sender \in {"sign", "bot"} =>
              /\ "sign_key" \in DOMAIN m
              /\ m.sign_key \in SignIds
        /\ m.sender = "user" => "sign_key" \notin DOMAIN m
        /\ m.sender = "sign" =>
              /\ m.text = sign_dict[m.sign_key]
              /\ m.sign_key = "CLOSED_FIST" => m.text = <<"Wait">>

(* a log holding a text, a fist and the replies to both *)
C29_Witness ==
    /\ Len(messages) = 5
    /\ pending = <<>>
    /\ \E i, j \in 2..5 :
          /\ messages[i].sender = "user"
          /\ IsSignMsg(messages[j], "CLOSED_FIST")
          /\ messages[j].text = <<"Wait">>
    /\ Cardinality({i \in 1..5 : messages[i].sender = "bot"}) = 3

====
